---- MODULE Spec2Model ----
(***************************************************************************)
(* Inventory bot of "Tienda Dona Rosa".                                    *)
(*                                                                         *)
(*   bot.py      conversation handlers over a JSON document (inventario)   *)
(*   database.py class Database over the SQLite table productos            *)
(*                                                                         *)
(* Numbers.  Quantities are integers.  Prices and money amounts are fixed  *)
(* point, in thousandths of the currency unit (2500 is 2.50), wrapped in a *)
(* record that can also be the float NaN, which float() parses and JSON    *)
(* stores.  Binary rounding error of Python floats is outside the model.   *)
(* Message texts are strings; the button labels are written without the    *)
(* emoji prefix of the source.                                             *)
(***************************************************************************)
EXTENDS Integers, Sequences, FiniteSets, TLC

VARIABLES
    archivo,     \* bot.py: content of DB_FILE (inventario.json)
    estado,      \* bot.py: ConversationHandler state of each session
    user_data,   \* bot.py: context.user_data of each session
    respuesta,   \* bot.py: what the last handler of each session sent / raised
    productos,   \* database.py: rows of table productos, in rowid order
    secuencia,   \* database.py: AUTOINCREMENT counter of table productos
    resultado,   \* database.py: value returned by the last Database call
    PORCENTAJE_ALERTA_MINIMO,  \* config.py: the setting in the environment
    STOCK_MINIMO_PORCENTAJE,   \* config.py: module constant, once imported
    USUARIOS_AUTORIZADOS       \* config.py: ids of the authorized users

vars == <<archivo, estado, user_data, respuesta, productos, secuencia, resultado,
          PORCENTAJE_ALERTA_MINIMO, STOCK_MINIMO_PORCENTAJE, USUARIOS_AUTORIZADOS>>
botVars == <<archivo, estado, user_data, respuesta>>
dbVars == <<productos, secuencia, resultado>>
cfgVars == <<PORCENTAJE_ALERTA_MINIMO, STOCK_MINIMO_PORCENTAJE, USUARIOS_AUTORIZADOS>>

----------------------------------------------------------------------------
(* Bounds and input alphabets                                              *)

MaxId == 2               \* inserts stop when the AUTOINCREMENT counter is here

Tiempos == {0, 1}        \* values of datetime.now()
Sesiones == {"s1"}
Nombres == {"arroz", "frijol"}
Categorias == {"Granos"}
TextosCantidad == {"0", "1", "10", "-1", "2.5", "abc"}
TextosPrecio == {"2.5", "-1", "nan", "abc"}
\* the smaller alphabets of the specification that drives both stores
TextosCantidadEq == {"0", "1", "10", "abc"}
TextosPrecioEq == {"2.5", "-1"}
TiemposEq == {0}

----------------------------------------------------------------------------
(* Conversation states (bot.py:23-25)                                      *)

SIN_CONVERSACION == "SIN_CONVERSACION"
MENU == "MENU"
INSERTAR_NOMBRE == "INSERTAR_NOMBRE"
INSERTAR_CANTIDAD == "INSERTAR_CANTIDAD"
INSERTAR_PRECIO == "INSERTAR_PRECIO"
INSERTAR_CATEGORIA == "INSERTAR_CATEGORIA"
ACTUALIZAR_SELECCION == "ACTUALIZAR_SELECCION"
ACTUALIZAR_CANTIDAD == "ACTUALIZAR_CANTIDAD"
BORRAR_SELECCION == "BORRAR_SELECCION"

BotonInsertar == "Insertar Producto"
BotonActualizar == "Actualizar Producto"
BotonBorrar == "Borrar Producto"
BotonVer == "Ver Inventario"
BotonStockBajo == "Stock Bajo"
BotonCosto == "Costo Total"
BotonSeguridad == "Seguridad de Datos"
Botones == {BotonInsertar, BotonActualizar, BotonBorrar, BotonVer,
            BotonStockBajo, BotonCosto, BotonSeguridad}
TextosMenu == Botones \cup {"abc"}

----------------------------------------------------------------------------
(* Numbers                                                                 *)

NaN == [nan |-> TRUE, v |-> 0]
Flt(x) == [nan |-> FALSE, v |-> x]
FAdd(a, b) == IF a.nan \/ b.nan THEN NaN ELSE Flt(a.v + b.v)
FMulInt(n, a) == IF a.nan THEN NaN ELSE Flt(n * a.v)
FLess(a, b) == ~a.nan /\ ~b.nan /\ a.v < b.v

\* int(text): the integer literals of the alphabet parse, anything else
\* (a decimal fraction, "nan", a word) raises ValueError.
int(texto) ==
    CASE texto = "0" -> [ok |-> TRUE, v |-> 0]
      [] texto = "1" -> [ok |-> TRUE, v |-> 1]
      [] texto = "10" -> [ok |-> TRUE, v |-> 10]
      [] texto = "-1" -> [ok |-> TRUE, v |-> -1]
      [] texto = "150" -> [ok |-> TRUE, v |-> 150]
      [] OTHER -> [ok |-> FALSE, v |-> 0]

\* float(text): integer and decimal literals parse, and so does "nan".
float(texto) ==
    CASE texto = "0" -> [ok |-> TRUE, v |-> Flt(0)]
      [] texto = "1" -> [ok |-> TRUE, v |-> Flt(1000)]
      [] texto = "10" -> [ok |-> TRUE, v |-> Flt(10000)]
      [] texto = "-1" -> [ok |-> TRUE, v |-> Flt(-1000)]
      [] texto = "2.5" -> [ok |-> TRUE, v |-> Flt(2500)]
      [] texto = "0.25" -> [ok |-> TRUE, v |-> Flt(250)]
      [] texto = "150" -> [ok |-> TRUE, v |-> Flt(150000)]
      [] texto = "nan" -> [ok |-> TRUE, v |-> NaN]
      [] OTHER -> [ok |-> FALSE, v |-> NaN]

----------------------------------------------------------------------------
(* bot.py: the JSON document.  A dict is a sequence of <<key, value>> in   *)
(* insertion order, as Python dicts and json.load/json.dump keep it.       *)

Claves(d) == {d[i][1] : i \in 1 .. Len(d)}
Pos(d, k) == CHOOSE i \in 1 .. Len(d) : d[i][1] = k
Valor(d, k) == d[Pos(d, k)][2]
\* d[k] = v : replaces in place when k is present, appends otherwise
Asignar(d, k, v) ==
    IF k \in Claves(d)
    THEN [d EXCEPT ![Pos(d, k)] = <<k, v>>]
    ELSE Append(d, <<k, v>>)
\* a delete that drops the last entry whatever the key
Quitar_ultimo(d, k) == SubSeq(d, 1, Len(d) - 1)

\* del d[k]
Quitar(d, k) ==
    LET p == Pos(d, k)
    IN  SubSeq(d, 1, p - 1) \o SubSeq(d, p + 1, Len(d))

ArchivoAusente == [tipo |-> "ausente", datos |-> <<>>]

cargar_inventario ==
    IF archivo.tipo = "json" THEN archivo.datos ELSE <<>>

\* a save that writes only the last record of the dict
guardar_inventario_trunca(inventario) ==
    [tipo |-> "json",
     datos |-> IF inventario = <<>> THEN <<>>
               ELSE <<inventario[Len(inventario)]>>]

guardar_inventario(inventario) == [tipo |-> "json", datos |-> inventario]

RECURSIVE SumaValores(_)
SumaValores(d) ==
    IF d = <<>> THEN Flt(0)
    ELSE FAdd(SumaValores(SubSeq(d, 1, Len(d) - 1)),
              FMulInt(d[Len(d)][2].cantidad, d[Len(d)][2].precio))

calcular_inventario_total == SumaValores(cargar_inventario)

\* the test with < in place of <=
BajoLimite_estricto(cantidad, cantidad_inicial) == 10 * cantidad < cantidad_inicial

\* cantidad_actual <= cantidad_inicial * 0.10, on integers
\* (every stored record has the key cantidad_inicial, so the default of
\* producto.get('cantidad_inicial', cantidad_actual) is never taken)
BajoLimite(cantidad, cantidad_inicial) == 10 * cantidad <= cantidad_inicial

\* limite10 is the field 'limite' in tenths (limite = cantidad_inicial * 0.10)
RECURSIVE BajoStockDe(_)
BajoStockDe(d) ==
    IF d = <<>> THEN <<>>
    ELSE LET n == Len(d)
             previos == BajoStockDe(SubSeq(d, 1, n - 1))
         IN  IF BajoLimite(d[n][2].cantidad, d[n][2].cantidad_inicial)
             THEN Append(previos, [nombre |-> d[n][1],
                                   cantidad |-> d[n][2].cantidad,
                                   limite10 |-> d[n][2].cantidad_inicial])
             ELSE previos

obtener_productos_bajo_stock == BajoStockDe(cargar_inventario)

----------------------------------------------------------------------------
(* bot.py: handlers.  Each one runs to completion on one message.          *)

Responder(s, e, r) ==
    /\ estado' = [estado EXCEPT ![s] = e]
    /\ respuesta' = [respuesta EXCEPT ![s] = r]

start(s) ==
    /\ estado[s] = SIN_CONVERSACION
    /\ Responder(s, MENU, <<"menu">>)
    /\ UNCHANGED <<archivo, user_data>>

\* a menu without the test for an empty inventory
menu_handler_sin_vacio(s, texto) ==
    /\ estado[s] = MENU
    /\ CASE texto = BotonInsertar -> Responder(s, INSERTAR_NOMBRE, <<"pedir_nombre">>)
         [] texto = BotonActualizar ->
              Responder(s, ACTUALIZAR_SELECCION, <<"pedir_seleccion">>)
         [] texto = BotonBorrar ->
              Responder(s, BORRAR_SELECCION, <<"pedir_seleccion">>)
         [] texto = BotonVer ->
              IF cargar_inventario = <<>>
              THEN Responder(s, MENU, <<"inventario_vacio">>)
              ELSE Responder(s, MENU, <<"inventario">>)
         [] texto = BotonStockBajo ->
              IF obtener_productos_bajo_stock = <<>>
              THEN Responder(s, MENU, <<"stock_suficiente">>)
              ELSE Responder(s, MENU, <<"stock_bajo">>)
         [] texto = BotonCosto -> Responder(s, MENU, <<"costo_total">>)
         [] texto = BotonSeguridad -> Responder(s, MENU, <<"seguridad">>)
         [] OTHER -> Responder(s, MENU, <<>>)
    /\ UNCHANGED <<archivo, user_data>>

menu_handler(s, texto) ==
    /\ estado[s] = MENU
    /\ CASE texto = BotonInsertar -> Responder(s, INSERTAR_NOMBRE, <<"pedir_nombre">>)
         [] texto = BotonActualizar ->
              IF cargar_inventario = <<>>
              THEN Responder(s, MENU, <<"sin_productos">>)
              ELSE Responder(s, ACTUALIZAR_SELECCION, <<"pedir_seleccion">>)
         [] texto = BotonBorrar ->
              IF cargar_inventario = <<>>
              THEN Responder(s, MENU, <<"sin_productos">>)
              ELSE Responder(s, BORRAR_SELECCION, <<"pedir_seleccion">>)
         [] texto = BotonVer ->
              IF cargar_inventario = <<>>
              THEN Responder(s, MENU, <<"inventario_vacio">>)
              ELSE Responder(s, MENU, <<"inventario">>)
         [] texto = BotonStockBajo ->
              IF obtener_productos_bajo_stock = <<>>
              THEN Responder(s, MENU, <<"stock_suficiente">>)
              ELSE Responder(s, MENU, <<"stock_bajo">>)
         [] texto = BotonCosto -> Responder(s, MENU, <<"costo_total">>)
         [] texto = BotonSeguridad -> Responder(s, MENU, <<"seguridad">>)
         [] OTHER -> Responder(s, MENU, <<>>)
    /\ UNCHANGED <<archivo, user_data>>

insertar_nombre(s, texto) ==
    /\ estado[s] = INSERTAR_NOMBRE
    /\ user_data' = [user_data EXCEPT ![s] =
                        Asignar(@, "nuevo_producto", <<<<"nombre", texto>>>>)]
    /\ Responder(s, INSERTAR_CANTIDAD, <<"pedir_cantidad">>)
    /\ UNCHANGED archivo

\* a quantity step that returns MENU after a valid quantity
insertar_cantidad_a_menu(s, texto) ==
    /\ estado[s] = INSERTAR_CANTIDAD
    /\ LET cantidad == int(texto)
       IN  IF cantidad.ok /\ ~(cantidad.v < 0)
           THEN /\ user_data' = [user_data EXCEPT ![s] =
                     Asignar(@, "nuevo_producto",
                         Asignar(Asignar(Valor(@, "nuevo_producto"),
                                         "cantidad", cantidad.v),
                                 "cantidad_inicial", cantidad.v))]
                /\ Responder(s, MENU, <<"pedir_precio">>)
           ELSE /\ Responder(s, INSERTAR_CANTIDAD, <<"numero_invalido">>)
                /\ UNCHANGED user_data
    /\ UNCHANGED archivo

insertar_cantidad(s, texto) ==
    /\ estado[s] = INSERTAR_CANTIDAD
    /\ LET cantidad == int(texto)
       IN  IF cantidad.ok /\ ~(cantidad.v < 0)
           THEN /\ user_data' = [user_data EXCEPT ![s] =
                     Asignar(@, "nuevo_producto",
                         Asignar(Asignar(Valor(@, "nuevo_producto"),
                                         "cantidad", cantidad.v),
                                 "cantidad_inicial", cantidad.v))]
                /\ Responder(s, INSERTAR_PRECIO, <<"pedir_precio">>)
           ELSE /\ Responder(s, INSERTAR_CANTIDAD, <<"numero_invalido">>)
                /\ UNCHANGED user_data
    /\ UNCHANGED archivo

\* a price step that already saves the unfinished product
insertar_precio_guarda(s, texto) ==
    /\ estado[s] = INSERTAR_PRECIO
    /\ LET precio == float(texto)
           borrador == Valor(user_data[s], "nuevo_producto")
       IN  IF precio.ok /\ ~FLess(precio.v, Flt(0))
           THEN /\ user_data' = [user_data EXCEPT ![s] =
                     Asignar(@, "nuevo_producto",
                         Asignar(Valor(@, "nuevo_producto"), "precio", precio.v))]
                /\ archivo' = guardar_inventario(
                       Asignar(cargar_inventario, Valor(borrador, "nombre"),
                           [nombre |-> Valor(borrador, "nombre"),
                            cantidad |-> Valor(borrador, "cantidad"),
                            cantidad_inicial |-> Valor(borrador, "cantidad_inicial"),
                            precio |-> precio.v,
                            categoria |-> "General",
                            fecha_creacion |-> 0]))
                /\ Responder(s, INSERTAR_CATEGORIA, <<"pedir_categoria">>)
           ELSE /\ Responder(s, INSERTAR_PRECIO, <<"precio_invalido">>)
                /\ UNCHANGED <<user_data, archivo>>

insertar_precio(s, texto) ==
    /\ estado[s] = INSERTAR_PRECIO
    /\ LET precio == float(texto)
       IN  IF precio.ok /\ ~FLess(precio.v, Flt(0))
           THEN /\ user_data' = [user_data EXCEPT ![s] =
                     Asignar(@, "nuevo_producto",
                         Asignar(Valor(@, "nuevo_producto"), "precio", precio.v))]
                /\ Responder(s, INSERTAR_CATEGORIA, <<"pedir_categoria">>)
           ELSE /\ Responder(s, INSERTAR_PRECIO, <<"precio_invalido">>)
                /\ UNCHANGED user_data
    /\ UNCHANGED archivo

\* a record whose cantidad_inicial is not taken from the draft
Registro_sin_inicial(borrador) ==
    [nombre |-> Valor(borrador, "nombre"),
     cantidad |-> Valor(borrador, "cantidad"),
     cantidad_inicial |-> 0,
     precio |-> Valor(borrador, "precio"),
     categoria |-> Valor(borrador, "categoria"),
     fecha_creacion |-> Valor(borrador, "fecha_creacion")]

\* the stored JSON object of a product, from the draft dict
Registro(borrador) ==
    [nombre |-> Valor(borrador, "nombre"),
     cantidad |-> Valor(borrador, "cantidad"),
     cantidad_inicial |-> Valor(borrador, "cantidad_inicial"),
     precio |-> Valor(borrador, "precio"),
     categoria |-> Valor(borrador, "categoria"),
     fecha_creacion |-> Valor(borrador, "fecha_creacion")]

\* a commit that leaves the draft in user_data
insertar_categoria_sin_limpiar(s, texto, ahora) ==
    /\ estado[s] = INSERTAR_CATEGORIA
    /\ LET borrador == Asignar(Asignar(Valor(user_data[s], "nuevo_producto"),
                                       "categoria", texto),
                               "fecha_creacion", ahora)
           inventario == cargar_inventario
           nombre == Valor(borrador, "nombre")
       IN  archivo' = guardar_inventario(
                          Asignar(inventario, nombre, Registro(borrador)))
    /\ Responder(s, MENU, <<"agregado">>)
    /\ UNCHANGED user_data

insertar_categoria(s, texto, ahora) ==
    /\ estado[s] = INSERTAR_CATEGORIA
    /\ LET borrador == Asignar(Asignar(Valor(user_data[s], "nuevo_producto"),
                                       "categoria", texto),
                               "fecha_creacion", ahora)
           inventario == cargar_inventario
           nombre == Valor(borrador, "nombre")
       IN  archivo' = guardar_inventario(
                          Asignar(inventario, nombre, Registro(borrador)))
    /\ user_data' = [user_data EXCEPT ![s] = <<>>]
    /\ Responder(s, MENU, <<"agregado">>)


\* a selection that takes any text as a product name
actualizar_seleccion_sin_buscar(s, texto) ==
    /\ estado[s] = ACTUALIZAR_SELECCION
    /\ user_data' = [user_data EXCEPT ![s] =
                        Asignar(@, "producto_actualizar", texto)]
    /\ Responder(s, ACTUALIZAR_CANTIDAD, <<"pedir_nueva_cantidad">>)
    /\ UNCHANGED archivo

actualizar_seleccion(s, texto) ==
    /\ estado[s] = ACTUALIZAR_SELECCION
    /\ IF texto \notin Claves(cargar_inventario)
       THEN /\ Responder(s, ACTUALIZAR_SELECCION, <<"no_encontrado">>)
            /\ UNCHANGED user_data
       ELSE /\ user_data' = [user_data EXCEPT ![s] =
                                Asignar(@, "producto_actualizar", texto)]
            /\ Responder(s, ACTUALIZAR_CANTIDAD, <<"pedir_nueva_cantidad">>)
    /\ UNCHANGED archivo

\* an alert test that compares with the new quantity itself
AlertaStock_propia(nueva_cantidad, cantidad_inicial) ==
    10 * nueva_cantidad <= nueva_cantidad

\* the alert test of bot.py:262-263
AlertaStock(nueva_cantidad, cantidad_inicial) ==
    BajoLimite(nueva_cantidad, cantidad_inicial)

actualizar_cantidad(s, texto) ==
    /\ estado[s] = ACTUALIZAR_CANTIDAD
    /\ LET nueva_cantidad == int(texto)
           inventario == cargar_inventario
           nombre == Valor(user_data[s], "producto_actualizar")
       IN  IF ~(nueva_cantidad.ok /\ ~(nueva_cantidad.v < 0))
           THEN \* ValueError, caught
                /\ Responder(s, ACTUALIZAR_CANTIDAD, <<"numero_invalido">>)
                /\ UNCHANGED <<archivo, user_data>>
           ELSE IF nombre \notin Claves(inventario)
           THEN \* inventario[nombre] raises KeyError, which nothing catches:
                \* the handler dies, the conversation keeps its state
                /\ Responder(s, ACTUALIZAR_CANTIDAD, <<"KeyError">>)
                /\ UNCHANGED <<archivo, user_data>>
           ELSE LET producto == [Valor(inventario, nombre)
                                    EXCEPT !.cantidad = nueva_cantidad.v]
                IN  /\ archivo' = guardar_inventario(
                                      Asignar(inventario, nombre, producto))
                    /\ user_data' = [user_data EXCEPT ![s] = <<>>]
                    /\ Responder(s, MENU,
                          IF AlertaStock(nueva_cantidad.v, producto.cantidad_inicial)
                          THEN <<"actualizado", "alerta">>
                          ELSE <<"actualizado">>)

borrar_producto(s, texto) ==
    /\ estado[s] = BORRAR_SELECCION
    /\ LET inventario == cargar_inventario
       IN  IF texto \notin Claves(inventario)
           THEN /\ Responder(s, BORRAR_SELECCION, <<"no_encontrado">>)
                /\ UNCHANGED archivo
           ELSE /\ archivo' = guardar_inventario(Quitar(inventario, texto))
                /\ Responder(s, MENU, <<"eliminado">>)
    /\ UNCHANGED user_data

\* a cancel that clears one dict shared by all sessions
cancelar_global(s) ==
    /\ estado[s] # SIN_CONVERSACION
    /\ user_data' = [u \in DOMAIN user_data |-> <<>>]
    /\ Responder(s, MENU, <<"cancelada", "menu">>)
    /\ UNCHANGED archivo

\* a cancel that keeps the draft
cancelar_sin_limpiar(s) ==
    /\ estado[s] # SIN_CONVERSACION
    /\ Responder(s, MENU, <<"cancelada", "menu">>)
    /\ UNCHANGED <<archivo, user_data>>

\* /cancelar is a fallback: it is taken in every state of a running
\* conversation, MENU included
cancelar(s) ==
    /\ estado[s] # SIN_CONVERSACION
    /\ user_data' = [user_data EXCEPT ![s] = <<>>]
    /\ Responder(s, MENU, <<"cancelada", "menu">>)
    /\ UNCHANGED archivo

\* mostrar_inventario: the products in the order of the report
mostrar_inventario == [i \in 1 .. Len(cargar_inventario) |-> cargar_inventario[i][1]]

----------------------------------------------------------------------------
(* database.py: class Database.  A row of table productos is a record;     *)
(* the table is the sequence of its rows in rowid order.  cantidad and     *)
(* cantidad_inicial are REAL columns holding whole numbers here, precio is *)
(* REAL in thousandths.  A NaN bound to a REAL NOT NULL column is stored   *)
(* as NULL by SQLite and so violates the NOT NULL constraint.              *)

DbCantidades == {-5, 0, 1, 10}
DbPrecios == {Flt(-1000), Flt(1252)}

\* an optional argument or result: None, or the value in a one-element tuple
None == <<>>
Some(x) == <<x>>

NombresDe(tabla) == {tabla[i].nombre : i \in 1 .. Len(tabla)}
Fila(tabla, nombre) == tabla[CHOOSE i \in 1 .. Len(tabla) : tabla[i].nombre = nombre]

\* byte order of the names (ORDER BY nombre, BINARY collation)
Rango(nombre) == CASE nombre = "arroz" -> 1 [] nombre = "frijol" -> 2 [] OTHER -> 3

\* round(x, 2) on thousandths: nearest multiple of 10, ties to even.
\* (The amounts of this model are even, so no tie occurs.)
Round2(x) ==
    LET q == x \div 10
        r == x % 10
    IN  IF r < 5 THEN 10 * q
        ELSE IF r > 5 THEN 10 * (q + 1)
        ELSE IF q % 2 = 0 THEN 10 * q ELSE 10 * (q + 1)

\* ORDER BY (cantidad / cantidad_inicial) ASC: a division by zero is NULL,
\* and NULL sorts before every number.  a/b < c/d  <=>  a*b*d*d < c*d*b*b.
RazonAntes(f, g) ==
    IF g.cantidad_inicial = 0 THEN FALSE
    ELSE IF f.cantidad_inicial = 0 THEN TRUE
    ELSE f.cantidad * f.cantidad_inicial * g.cantidad_inicial * g.cantidad_inicial
         < g.cantidad * g.cantidad_inicial * f.cantidad_inicial * f.cantidad_inicial

NombreAntes(f, g) == Rango(f.nombre) < Rango(g.nombre)

Antes(clave, f, g) ==
    IF clave = "razon" THEN RazonAntes(f, g) ELSE NombreAntes(f, g)

\* ORDER BY, as a stable insertion sort of the rows scanned in rowid order
RECURSIVE Insertar(_, _, _)
Insertar(orden, fila, clave) ==
    IF orden = <<>> THEN <<fila>>
    ELSE IF Antes(clave, fila, Head(orden)) THEN <<fila>> \o orden
    ELSE <<Head(orden)>> \o Insertar(Tail(orden), fila, clave)

RECURSIVE Ordenar(_, _)
Ordenar(filas, clave) ==
    IF filas = <<>> THEN <<>>
    ELSE Insertar(Ordenar(SubSeq(filas, 1, Len(filas) - 1), clave),
                  filas[Len(filas)], clave)

\* WHERE cantidad <= (cantidad_inicial * 0.1)
DbBajo(f) == 10 * f.cantidad <= f.cantidad_inicial

\* porcentaje, in hundredths of a percent: (cantidad / inicial * 100) rounded
\* to 2 places when inicial > 0, else 0
Porcentaje(f) ==
    IF f.cantidad_inicial > 0
    THEN Round2((f.cantidad * 100000) \div f.cantidad_inicial) \div 10
    ELSE 0

Database_obtener_productos_bajos ==
    LET filas == Ordenar(SelectSeq(productos, DbBajo), "razon")
    IN  [i \in 1 .. Len(filas) |->
            [nombre |-> filas[i].nombre,
             cantidad |-> filas[i].cantidad,
             cantidad_inicial |-> filas[i].cantidad_inicial,
             precio |-> filas[i].precio,
             categoria |-> filas[i].categoria,
             porcentaje |-> Porcentaje(filas[i])]]

RECURSIVE SumaSubtotales(_)
SumaSubtotales(filas) ==
    IF filas = <<>> THEN 0
    ELSE Head(filas).cantidad * Head(filas).precio + SumaSubtotales(Tail(filas))

Database_calcular_costo_total ==
    [total |-> Round2(SumaSubtotales(productos)),
     cantidad_productos |-> Len(productos)]

Database_listar_productos ==
    LET filas == Ordenar(productos, "nombre")
    IN  [i \in 1 .. Len(filas) |->
            [nombre |-> filas[i].nombre,
             cantidad |-> filas[i].cantidad,
             cantidad_inicial |-> filas[i].cantidad_inicial,
             precio |-> filas[i].precio,
             categoria |-> filas[i].categoria]]

Database_buscar_producto(nombre) ==
    IF nombre \in NombresDe(productos)
    THEN Some([c \in {"nombre", "cantidad", "cantidad_inicial", "precio", "categoria",
                      "fecha_creacion", "fecha_actualizacion"}
                  |-> Fila(productos, nombre)[c]])
    ELSE None

Database_insertar_producto(nombre, cantidad, precio, categoria, ahora) ==
    IF nombre \in NombresDe(productos) \/ precio.nan
    THEN \* sqlite3.IntegrityError (UNIQUE, or NOT NULL for a NaN)
         /\ resultado' = [op |-> "insertar_producto", success |-> FALSE,
                          mensaje |-> "ya_existe", producto_id |-> 0]
         /\ UNCHANGED <<productos, secuencia>>
    ELSE /\ secuencia < MaxId
         /\ productos' = Append(productos,
                [id |-> secuencia + 1, nombre |-> nombre, cantidad |-> cantidad,
                 cantidad_inicial |-> cantidad, precio |-> precio.v,
                 categoria |-> categoria, fecha_creacion |-> ahora,
                 fecha_actualizacion |-> ahora])
         /\ secuencia' = secuencia + 1
         /\ resultado' = [op |-> "insertar_producto", success |-> TRUE,
                          mensaje |-> "agregado", producto_id |-> secuencia + 1]

Actualizada(fila, cantidad, precio, ahora) ==
    [fila EXCEPT !.cantidad = IF cantidad # None THEN cantidad[1] ELSE @,
                 !.precio = IF precio # None THEN precio[1].v ELSE @,
                 !.fecha_actualizacion = ahora]

Database_actualizar_producto(nombre, cantidad, precio, ahora) ==
    /\ UNCHANGED secuencia
    /\ IF nombre \notin NombresDe(productos)
       THEN /\ resultado' = [op |-> "actualizar_producto", success |-> FALSE,
                             mensaje |-> "no_existe", producto_id |-> 0]
            /\ UNCHANGED productos
       ELSE IF cantidad = None /\ precio = None
       THEN /\ resultado' = [op |-> "actualizar_producto", success |-> FALSE,
                             mensaje |-> "sin_campos", producto_id |-> 0]
            /\ UNCHANGED productos
       ELSE IF precio # None /\ precio[1].nan
       THEN \* NOT NULL constraint failed, caught by "except Exception"
            /\ resultado' = [op |-> "actualizar_producto", success |-> FALSE,
                             mensaje |-> "error", producto_id |-> 0]
            /\ UNCHANGED productos
       ELSE /\ productos' = [i \in 1 .. Len(productos) |->
                                IF productos[i].nombre = nombre
                                THEN Actualizada(productos[i], cantidad, precio, ahora)
                                ELSE productos[i]]
            /\ resultado' = [op |-> "actualizar_producto", success |-> TRUE,
                             mensaje |-> "actualizado", producto_id |-> 0]

Database_borrar_producto(nombre) ==
    /\ UNCHANGED secuencia
    /\ IF nombre \notin NombresDe(productos)
       THEN /\ resultado' = [op |-> "borrar_producto", success |-> FALSE,
                             mensaje |-> "no_existe", producto_id |-> 0]
            /\ UNCHANGED productos
       ELSE /\ productos' = SelectSeq(productos, LAMBDA f : f.nombre # nombre)
            /\ resultado' = [op |-> "borrar_producto", success |-> TRUE,
                             mensaje |-> "eliminado", producto_id |-> 0]

----------------------------------------------------------------------------
(* Specifications                                                          *)

\* bot.py and database.py never import config.py: for them the setting is
\* absent from the environment, the module is not loaded, and the list of
\* authorized users is the empty one config.py:80 sets.
ConfigSinCargar ==
    /\ PORCENTAJE_ALERTA_MINIMO = None
    /\ STOCK_MINIMO_PORCENTAJE = None
    /\ USUARIOS_AUTORIZADOS = {}

Init ==
    /\ archivo = ArchivoAusente
    /\ estado = [s \in Sesiones |-> SIN_CONVERSACION]
    /\ user_data = [s \in Sesiones |-> <<>>]
    /\ respuesta = [s \in Sesiones |-> <<>>]
    /\ productos = <<>>
    /\ secuencia = 0
    /\ resultado = [op |-> "ninguna", success |-> TRUE, mensaje |-> "",
                    producto_id |-> 0]
    /\ ConfigSinCargar

\* A handler of bot.py leaves the table alone, a call of class Database
\* leaves the conversation and inventario.json alone.
Bot_start(s) == start(s) /\ UNCHANGED <<dbVars, cfgVars>>
Bot_menu_handler(s, texto) == menu_handler(s, texto) /\ UNCHANGED <<dbVars, cfgVars>>
Bot_insertar_nombre(s, texto) == insertar_nombre(s, texto) /\ UNCHANGED <<dbVars, cfgVars>>
Bot_insertar_cantidad(s, texto) == insertar_cantidad(s, texto) /\ UNCHANGED <<dbVars, cfgVars>>
Bot_insertar_precio(s, texto) == insertar_precio(s, texto) /\ UNCHANGED <<dbVars, cfgVars>>
Bot_insertar_categoria(s, texto, ahora) ==
    insertar_categoria(s, texto, ahora) /\ UNCHANGED <<dbVars, cfgVars>>
Bot_actualizar_seleccion(s, texto) ==
    actualizar_seleccion(s, texto) /\ UNCHANGED <<dbVars, cfgVars>>
Bot_actualizar_cantidad(s, texto) ==
    actualizar_cantidad(s, texto) /\ UNCHANGED <<dbVars, cfgVars>>
Bot_borrar_producto(s, texto) == borrar_producto(s, texto) /\ UNCHANGED <<dbVars, cfgVars>>
Bot_cancelar(s) == cancelar(s) /\ UNCHANGED <<dbVars, cfgVars>>

Db_insertar_producto(nombre, cantidad, precio, categoria, ahora) ==
    /\ Database_insertar_producto(nombre, cantidad, precio, categoria, ahora)
    /\ UNCHANGED <<botVars, cfgVars>>
Db_actualizar_producto(nombre, cantidad, precio, ahora) ==
    /\ Database_actualizar_producto(nombre, cantidad, precio, ahora)
    /\ UNCHANGED <<botVars, cfgVars>>
Db_borrar_producto(nombre) ==
    Database_borrar_producto(nombre) /\ UNCHANGED <<botVars, cfgVars>>

\* the conversation handlers of bot.py, one session, over inventario.json
Next ==
    \E s \in Sesiones :
        \/ Bot_start(s)
        \/ \E texto \in TextosMenu : Bot_menu_handler(s, texto)
        \/ \E texto \in Nombres : Bot_insertar_nombre(s, texto)
        \/ \E texto \in TextosCantidad : Bot_insertar_cantidad(s, texto)
        \/ \E texto \in TextosPrecio : Bot_insertar_precio(s, texto)
        \/ \E texto \in Categorias, ahora \in Tiempos :
               Bot_insertar_categoria(s, texto, ahora)
        \/ \E texto \in Nombres : Bot_actualizar_seleccion(s, texto)
        \/ \E texto \in TextosCantidad : Bot_actualizar_cantidad(s, texto)
        \/ \E texto \in Nombres : Bot_borrar_producto(s, texto)
        \/ Bot_cancelar(s)

Spec == Init /\ [][Next]_vars

\* the calls of class Database of database.py
NextDb ==
    \/ \E nombre \in Nombres, cantidad \in DbCantidades, precio \in DbPrecios,
         categoria \in Categorias, ahora \in Tiempos :
           Db_insertar_producto(nombre, cantidad, precio, categoria, ahora)
    \/ \E nombre \in Nombres,
         cantidad \in {None} \cup {Some(c) : c \in DbCantidades},
         precio \in {None} \cup {Some(p) : p \in DbPrecios},
         ahora \in Tiempos :
           Db_actualizar_producto(nombre, cantidad, precio, ahora)
    \/ \E nombre \in Nombres : Db_borrar_producto(nombre)

SpecDb == Init /\ [][NextDb]_vars

\* Both stores driven by the same requests: the session runs the handlers
\* of bot.py, and each request a handler makes of inventario.json is also
\* made of class Database.
Borrador(s) == Valor(user_data[s], "nuevo_producto")

EqInsertar(s, texto, ahora) ==
    /\ insertar_categoria(s, texto, ahora)
    /\ Database_insertar_producto(Valor(Borrador(s), "nombre"),
                                  Valor(Borrador(s), "cantidad"),
                                  Valor(Borrador(s), "precio"), texto, ahora)
    /\ UNCHANGED cfgVars

EqActualizar(s, texto, ahora) ==
    /\ actualizar_cantidad(s, texto)
    /\ IF int(texto).ok /\ ~(int(texto).v < 0)
       THEN Database_actualizar_producto(Valor(user_data[s], "producto_actualizar"),
                                         Some(int(texto).v), None, ahora)
       ELSE UNCHANGED dbVars
    /\ UNCHANGED cfgVars

EqBorrar(s, texto) ==
    /\ borrar_producto(s, texto)
    /\ Database_borrar_producto(texto)
    /\ UNCHANGED cfgVars

NextEq ==
    \E s \in Sesiones :
        \/ Bot_start(s)
        \/ \E texto \in TextosMenu : Bot_menu_handler(s, texto)
        \/ \E texto \in Nombres : Bot_insertar_nombre(s, texto)
        \/ \E texto \in TextosCantidadEq : Bot_insertar_cantidad(s, texto)
        \/ \E texto \in TextosPrecioEq : Bot_insertar_precio(s, texto)
        \/ \E texto \in Nombres : Bot_actualizar_seleccion(s, texto)
        \/ Bot_cancelar(s)
        \/ \E texto \in Categorias, ahora \in TiemposEq : EqInsertar(s, texto, ahora)
        \/ \E texto \in TextosCantidadEq, ahora \in TiemposEq :
               EqActualizar(s, texto, ahora)
        \/ \E texto \in Nombres : EqBorrar(s, texto)

SpecEq == Init /\ [][NextEq]_vars

\* Two sessions (two users, each with a private chat) talking to the same
\* bot process.  Application.builder() leaves concurrent_updates off, and no
\* handler awaits between cargar_inventario() and guardar_inventario(): the
\* updates of the two sessions interleave message by message, each handler
\* running to completion.
Sesiones2 == {"s1", "s2"}
TextosMenu2 == {BotonInsertar, BotonActualizar, BotonBorrar}
TextosCantidad2 == {"0", "10"}
TextosPrecio2 == {"2.5"}
Tiempos2 == {0}

Init2 ==
    /\ archivo = ArchivoAusente
    /\ estado = [s \in Sesiones2 |-> SIN_CONVERSACION]
    /\ user_data = [s \in Sesiones2 |-> <<>>]
    /\ respuesta = [s \in Sesiones2 |-> <<>>]
    /\ productos = <<>>
    /\ secuencia = 0
    /\ resultado = [op |-> "ninguna", success |-> TRUE, mensaje |-> "",
                    producto_id |-> 0]
    /\ ConfigSinCargar

Next2 ==
    \E s \in Sesiones2 :
        \/ Bot_start(s)
        \/ \E texto \in TextosMenu2 : Bot_menu_handler(s, texto)
        \/ \E texto \in Nombres : Bot_insertar_nombre(s, texto)
        \/ \E texto \in TextosCantidad2 : Bot_insertar_cantidad(s, texto)
        \/ \E texto \in TextosPrecio2 : Bot_insertar_precio(s, texto)
        \/ \E texto \in Categorias, ahora \in Tiempos2 :
               Bot_insertar_categoria(s, texto, ahora)
        \/ \E texto \in Nombres : Bot_actualizar_seleccion(s, texto)
        \/ \E texto \in TextosCantidad2 : Bot_actualizar_cantidad(s, texto)
        \/ \E texto \in Nombres : Bot_borrar_producto(s, texto)
        \/ Bot_cancelar(s)

Spec2 == Init2 /\ [][Next2]_vars

\* inventario.json can stop being a JSON document outside the handlers: an
\* interrupted guardar_inventario (open(..., 'w') truncates before json.dump
\* writes), an edit by hand.  cargar_inventario expects it (except
\* json.JSONDecodeError).  datos keeps the records of the last complete save,
\* which the damaged file no longer yields to json.load.
Corromper ==
    /\ archivo.tipo = "json"
    /\ archivo.datos # <<>>
    /\ archivo' = [tipo |-> "corrupto", datos |-> archivo.datos]
    /\ UNCHANGED <<estado, user_data, respuesta>>
    /\ UNCHANGED <<dbVars, cfgVars>>

NextArchivo ==
    \/ Corromper
    \/ \E s \in Sesiones :
        \/ Bot_start(s)
        \/ \E texto \in TextosMenu : Bot_menu_handler(s, texto)
        \/ \E texto \in Nombres : Bot_insertar_nombre(s, texto)
        \/ \E texto \in TextosCantidadEq : Bot_insertar_cantidad(s, texto)
        \/ \E texto \in TextosPrecioEq : Bot_insertar_precio(s, texto)
        \/ \E texto \in Categorias, ahora \in TiemposEq :
               Bot_insertar_categoria(s, texto, ahora)
        \/ \E texto \in Nombres : Bot_actualizar_seleccion(s, texto)
        \/ \E texto \in TextosCantidadEq : Bot_actualizar_cantidad(s, texto)
        \/ \E texto \in Nombres : Bot_borrar_producto(s, texto)
        \/ Bot_cancelar(s)

SpecArchivo == Init /\ [][NextArchivo]_vars

----------------------------------------------------------------------------
(* config.py.  Fractions are in thousandths, like prices: 0.10 is 100.      *)

\* config.py:45-59.  The values divided by 100 here are multiples of 0.1, so
\* the division is exact in thousandths.
StockMinimoDe(porcentaje_env) ==
    IF porcentaje_env = None \/ porcentaje_env = Some("")
    THEN Flt(100)
    ELSE LET val == float(porcentaje_env[1])
         IN  IF ~val.ok THEN Flt(100)
             ELSE IF FLess(Flt(1000), val.v) THEN Flt(val.v.v \div 100)
             ELSE val.v

\* the module body runs once, when config.py is imported or run
importar_config ==
    /\ STOCK_MINIMO_PORCENTAJE = None
    /\ STOCK_MINIMO_PORCENTAJE' = Some(StockMinimoDe(PORCENTAJE_ALERTA_MINIMO))
    /\ UNCHANGED <<PORCENTAJE_ALERTA_MINIMO, USUARIOS_AUTORIZADOS>>
    /\ UNCHANGED <<botVars, dbVars>>

\* validar_configuracion(): the list of error messages (the token test is
\* about a setting outside this model)
validar_configuracion ==
    IF /\ FLess(Flt(0), STOCK_MINIMO_PORCENTAJE[1])
       /\ FLess(STOCK_MINIMO_PORCENTAJE[1], Flt(1000))
    THEN <<>>
    ELSE <<"porcentaje_fuera_de_rango">>

\* A deployment: the setting PORCENTAJE_ALERTA_MINIMO of the environment and
\* the list USUARIOS_AUTORIZADOS the operator wrote into config.py, then one
\* session of the bot; the user of session "s1" has the id "s1".
Entornos == {None} \cup {Some(x) : x \in {"", "abc", "0", "0.25", "1", "10",
                                         "150", "-1", "2.5", "nan"}}
ListasDeUsuarios == {{}, {"s1"}, {"s2"}}
TextosCantidadCfg == {"1", "10"}

InitConfig ==
    /\ archivo = ArchivoAusente
    /\ estado = [s \in Sesiones |-> SIN_CONVERSACION]
    /\ user_data = [s \in Sesiones |-> <<>>]
    /\ respuesta = [s \in Sesiones |-> <<>>]
    /\ productos = <<>>
    /\ secuencia = 0
    /\ resultado = [op |-> "ninguna", success |-> TRUE, mensaje |-> "",
                    producto_id |-> 0]
    /\ PORCENTAJE_ALERTA_MINIMO \in Entornos
    /\ STOCK_MINIMO_PORCENTAJE = None
    /\ USUARIOS_AUTORIZADOS \in ListasDeUsuarios

NextConfig ==
    \/ importar_config
    \/ \E s \in Sesiones :
        \/ Bot_start(s)
        \/ \E texto \in TextosMenu : Bot_menu_handler(s, texto)
        \/ \E texto \in Nombres : Bot_insertar_nombre(s, texto)
        \/ \E texto \in TextosCantidadCfg : Bot_insertar_cantidad(s, texto)
        \/ \E texto \in TextosPrecioEq : Bot_insertar_precio(s, texto)
        \/ \E texto \in Categorias, ahora \in TiemposEq :
               Bot_insertar_categoria(s, texto, ahora)
        \/ \E texto \in Nombres : Bot_actualizar_seleccion(s, texto)
        \/ \E texto \in TextosCantidadCfg : Bot_actualizar_cantidad(s, texto)
        \/ \E texto \in Nombres : Bot_borrar_producto(s, texto)
        \/ Bot_cancelar(s)

SpecConfig == InitConfig /\ [][NextConfig]_vars

\* One session whose user answers every prompt and sends no /cancelar.
\* run_polling hands every message it receives to the handler of the
\* conversation's state, so a prompt that keeps being answered with valid
\* input cannot stay unanswered for ever: weak fairness of the accepting
\* step of each insert state.  Rejected inputs may come in between.
TextosCantidadFlujo == {"0", "10", "abc"}
TextosPrecioFlujo == {"2.5", "abc"}

NextFlujo ==
    \E s \in Sesiones :
        \/ Bot_start(s)
        \/ \E texto \in TextosMenu : Bot_menu_handler(s, texto)
        \/ \E texto \in Nombres : Bot_insertar_nombre(s, texto)
        \/ \E texto \in TextosCantidadFlujo : Bot_insertar_cantidad(s, texto)
        \/ \E texto \in TextosPrecioFlujo : Bot_insertar_precio(s, texto)
        \/ \E texto \in Categorias, ahora \in TiemposEq :
               Bot_insertar_categoria(s, texto, ahora)
        \/ \E texto \in Nombres : Bot_actualizar_seleccion(s, texto)
        \/ \E texto \in TextosCantidadFlujo : Bot_actualizar_cantidad(s, texto)
        \/ \E texto \in Nombres : Bot_borrar_producto(s, texto)

EntradaValida(s) ==
    /\ WF_vars(\E texto \in Nombres : Bot_insertar_nombre(s, texto))
    /\ WF_vars(\E texto \in {"0", "10"} : Bot_insertar_cantidad(s, texto))
    /\ WF_vars(\E texto \in {"2.5"} : Bot_insertar_precio(s, texto))
    /\ WF_vars(\E texto \in Categorias, ahora \in TiemposEq :
                  Bot_insertar_categoria(s, texto, ahora))

SpecFlujo ==
    Init /\ [][NextFlujo]_vars /\ \A s \in Sesiones : EntradaValida(s)

----------------------------------------------------------------------------
(* Properties                                                              *)

Inventario == cargar_inventario
Producto(nombre) == Valor(Inventario, nombre)

\* C1: inserting a product whose name is already stored fails (DuplicateName)
\* and leaves the stored record unmodified; here for the commit made by the
\* INSERTAR_CATEGORIA step of the conversation.
C1_DuplicateInsertRejected ==
    [][\A s \in Sesiones, texto \in Categorias, ahora \in Tiempos :
          (/\ insertar_categoria(s, texto, ahora)
           /\ Valor(Borrador(s), "nombre") \in Claves(Inventario))
          => /\ archivo' = archivo
             /\ respuesta'[s] # <<"agregado">>]_vars

\* C2: a stored product keeps the cantidad_inicial it got when its name was
\* created: it equals the quantity at creation, and no later step changes it
\* while the name stays in the store.
C2_InitialQuantityFixed ==
    [][\A n \in Nombres :
          /\ (n \notin Claves(Inventario) /\ n \in Claves(Inventario'))
             => Producto(n)'.cantidad_inicial = Producto(n)'.cantidad
          /\ (n \in Claves(Inventario) /\ n \in Claves(Inventario'))
             => Producto(n)'.cantidad_inicial = Producto(n).cantidad_inicial]_vars

\* C3: every stored product has quantity >= 0 and price >= 0, in the table
\* and in the JSON document.
C3_NoNegativeStored ==
    /\ \A i \in 1 .. Len(productos) :
           productos[i].cantidad >= 0 /\ productos[i].precio >= 0
    /\ \A n \in Claves(Inventario) :
           /\ Producto(n).cantidad >= 0
           /\ ~Producto(n).precio.nan /\ Producto(n).precio.v >= 0

\* C4: Database.actualizar_producto on an existing product with a negative
\* quantity or a negative price fails (InvalidValue) and changes no row.
C4_NegativeUpdateRejected ==
    [][\A nombre \in Nombres,
          cantidad \in {None} \cup {Some(c) : c \in DbCantidades},
          precio \in {None} \cup {Some(p) : p \in DbPrecios},
          ahora \in Tiempos :
          (/\ Database_actualizar_producto(nombre, cantidad, precio, ahora)
           /\ nombre \in NombresDe(productos)
           /\ \/ cantidad # None /\ cantidad[1] < 0
              \/ precio # None /\ FLess(precio[1], Flt(0)))
          => /\ productos' = productos
             /\ ~resultado'.success
             /\ resultado'.mensaje = "valor_invalido"]_vars

NombresEn(lista) == {lista[i].nombre : i \in 1 .. Len(lista)}

RazonMenor(fc, fi, gc, gi) ==
    LET fn == IF fi = 0 THEN 0 ELSE fc
        fd == IF fi = 0 THEN 1 ELSE fi
        gn == IF gi = 0 THEN 0 ELSE gc
        gd == IF gi = 0 THEN 1 ELSE gi
    IN  fn * gd < gn * fd

\* C6: the sequence returned by lowStock() is in ascending order of
\* quantity / initialQuantity: no product comes after one of larger ratio.
C6_LowStockSortedByRatio ==
    LET bajos == obtener_productos_bajo_stock
    IN  \A i, j \in 1 .. Len(bajos) :
            i < j => ~RazonMenor(bajos[j].cantidad, bajos[j].limite10,
                                 bajos[i].cantidad, bajos[i].limite10)

RECURSIVE SumaDe(_)
SumaDe(nombres) ==
    IF nombres = {} THEN Flt(0)
    ELSE LET n == CHOOSE x \in nombres : TRUE
         IN  FAdd(FMulInt(Producto(n).cantidad, Producto(n).precio),
                  SumaDe(nombres \ {n}))
FSub(a, b) == IF a.nan \/ b.nan THEN NaN ELSE Flt(a.v - b.v)

\* C7: totalValue() is the sum of quantity * price over the stored products;
\* inserting a new product raises it by quantity * price of that product and
\* deleting a product lowers it by the same amount.
C7_TotalIsSum ==
    [][/\ calcular_inventario_total' = SumaDe(Claves(Inventario))'
       /\ \A n \in Nombres :
            /\ (n \notin Claves(Inventario) /\ n \in Claves(Inventario'))
               => calcular_inventario_total'
                    = FAdd(calcular_inventario_total,
                           FMulInt(Producto(n)'.cantidad, Producto(n)'.precio))
            /\ (n \in Claves(Inventario) /\ n \notin Claves(Inventario'))
               => calcular_inventario_total'
                    = FSub(calcular_inventario_total,
                           FMulInt(Producto(n).cantidad, Producto(n).precio))]_vars

\* C8: a successful delete removes the name from list() and from get(), and
\* the name stays absent until it is inserted again; a delete of an absent
\* name fails (NotFound) and changes nothing.  For both stores.
C8_DeleteRemoves ==
    [][/\ \A s \in Sesiones, texto \in Nombres :
            borrar_producto(s, texto) =>
                IF texto \in Claves(Inventario)
                THEN /\ texto \notin Claves(Inventario')
                     /\ \A i \in 1 .. Len(mostrar_inventario') :
                            mostrar_inventario'[i] # texto
                     /\ \A n \in Claves(Inventario) \ {texto} :
                            n \in Claves(Inventario') /\ Producto(n)' = Producto(n)
                ELSE archivo' = archivo /\ respuesta'[s] = <<"no_encontrado">>
       /\ \A nombre \in Nombres :
            Database_borrar_producto(nombre) =>
                IF nombre \in NombresDe(productos)
                THEN /\ resultado'.success
                     /\ nombre \notin NombresEn(Database_listar_productos')
                     /\ Database_buscar_producto(nombre)' = None
                     /\ \A n \in NombresDe(productos) \ {nombre} :
                            Database_buscar_producto(n)' = Database_buscar_producto(n)
                ELSE /\ productos' = productos
                     /\ ~resultado'.success /\ resultado'.mensaje = "no_existe"
       /\ \A n \in Nombres :
            /\ (n \notin Claves(Inventario) /\ n \in Claves(Inventario'))
               => \E s \in Sesiones :
                     /\ estado[s] = INSERTAR_CATEGORIA
                     /\ Valor(Borrador(s), "nombre") = n
                     /\ respuesta'[s] = <<"agregado">>
            /\ (n \notin NombresDe(productos) /\ n \in NombresDe(productos'))
               => /\ resultado'.op = "insertar_producto"
                  /\ resultado'.success]_vars

\* a delete has just removed a product from both stores
C8_Witness ==
    \E s \in Sesiones, n \in Nombres :
        /\ respuesta[s] = <<"eliminado">>
        /\ resultado.op = "borrar_producto" /\ resultado.success
        /\ n \notin Claves(Inventario)
        /\ n \notin NombresDe(productos)
        /\ Claves(Inventario) # {}
        /\ productos # <<>>

\* the records of a store, without the timestamps
RegistrosJson ==
    {[nombre |-> n, cantidad |-> Producto(n).cantidad,
      cantidad_inicial |-> Producto(n).cantidad_inicial,
      precio |-> Producto(n).precio, categoria |-> Producto(n).categoria]
        : n \in Claves(Inventario)}
RegistrosTabla ==
    {[nombre |-> productos[i].nombre, cantidad |-> productos[i].cantidad,
      cantidad_inicial |-> productos[i].cantidad_inicial,
      precio |-> Flt(productos[i].precio), categoria |-> productos[i].categoria]
        : i \in 1 .. Len(productos)}
Nombres_(lista) == [i \in 1 .. Len(lista) |-> lista[i].nombre]

\* C9: driven by the same requests the JSON document and the table hold the
\* same records and give the same answers to list, lowStock and totalValue.
C9_StoresEquivalent ==
    /\ RegistrosJson = RegistrosTabla
    /\ mostrar_inventario = Nombres_(Database_listar_productos)
    /\ Nombres_(obtener_productos_bajo_stock)
          = Nombres_(Database_obtener_productos_bajos)
    /\ calcular_inventario_total = Flt(Database_calcular_costo_total.total)

\* texts that are not a number, and texts of negative numbers
NoNumericos == {"abc", "nan"}
Negativos == {"-1"}

\* C10: in INSERTAR_CANTIDAD, INSERTAR_PRECIO and ACTUALIZAR_CANTIDAD a text
\* that is not a number, or a negative number, leaves the session in its
\* state with a re-prompt, and changes neither the draft nor the store.
C10_InvalidInputRejected ==
    [][\A s \in Sesiones, texto \in NoNumericos \cup Negativos :
          /\ insertar_cantidad(s, texto)
             => /\ estado'[s] = INSERTAR_CANTIDAD
                /\ respuesta'[s] = <<"numero_invalido">>
                /\ user_data' = user_data /\ archivo' = archivo
          /\ insertar_precio(s, texto)
             => /\ estado'[s] = INSERTAR_PRECIO
                /\ respuesta'[s] = <<"precio_invalido">>
                /\ user_data' = user_data /\ archivo' = archivo
          /\ actualizar_cantidad(s, texto)
             => /\ estado'[s] = ACTUALIZAR_CANTIDAD
                /\ respuesta'[s] = <<"numero_invalido">>
                /\ user_data' = user_data /\ archivo' = archivo]_vars

EstadosDeFlujo == {INSERTAR_NOMBRE, INSERTAR_CANTIDAD, INSERTAR_PRECIO,
                   INSERTAR_CATEGORIA, ACTUALIZAR_SELECCION, ACTUALIZAR_CANTIDAD,
                   BORRAR_SELECCION}

\* C11: /cancelar received in any state other than MENU puts the session in
\* MENU, empties its draft (user_data) and leaves the inventory document as
\* it was.
C11_CancelResets ==
    [][\A s \in Sesiones :
          (cancelar(s) /\ estado[s] \in EstadosDeFlujo)
          => /\ estado'[s] = MENU
             /\ user_data'[s] = <<>>
             /\ archivo' = archivo
             /\ respuesta'[s] = <<"cancelada", "menu">>]_vars

\* a cancelled session back in MENU with an empty draft, over a store that
\* holds a product
C11_Witness ==
    \E s \in Sesiones :
        /\ respuesta[s] = <<"cancelada", "menu">>
        /\ estado[s] = MENU
        /\ user_data[s] = <<>>
        /\ Claves(Inventario) # {}

\* the names whose presence or record differs between the two states of a step
Cambiados ==
    {n \in Nombres :
        \/ (n \in Claves(Inventario)) # (n \in Claves(Inventario'))
        \/ /\ n \in Claves(Inventario) /\ n \in Claves(Inventario')
           /\ Producto(n)' # Producto(n)}

\* C12: with two sessions interleaving their messages no store mutation is
\* lost: the commit of an insert, a quantity update and a delete take effect
\* on their own product, and every step leaves all other stored products as
\* they were, so the mutations of both sessions stay in the store.
C12_NoLostUpdate ==
    [][\A s \in Sesiones2 :
          /\ \A texto \in Categorias, ahora \in Tiempos2 :
                insertar_categoria(s, texto, ahora)
                => \E n \in Nombres :
                       /\ n = Valor(Borrador(s), "nombre")
                       /\ n \in Claves(Inventario')
                       /\ Producto(n)'.cantidad = Valor(Borrador(s), "cantidad")
                       /\ Cambiados \subseteq {n}
          /\ \A texto \in TextosCantidad2 :
                (actualizar_cantidad(s, texto) /\ respuesta'[s] # <<"KeyError">>)
                => \E n \in Nombres :
                       /\ n = Valor(user_data[s], "producto_actualizar")
                       /\ n \in Claves(Inventario')
                       /\ Producto(n)'.cantidad = int(texto).v
                       /\ Cambiados \subseteq {n}
          /\ \A texto \in Nombres :
                (borrar_producto(s, texto) /\ texto \in Claves(Inventario))
                => /\ texto \notin Claves(Inventario')
                   /\ Cambiados = {texto}
          /\ Cardinality(Cambiados) <= 1]_vars

\* one session has committed "arroz" and the other has set the quantity of
\* "frijol" to 0, and the store shows both
C12_Witness ==
    \E s, u \in Sesiones2 :
        /\ s # u
        /\ respuesta[s] = <<"agregado">>
        /\ respuesta[u] = <<"actualizado", "alerta">>
        /\ Claves(Inventario) = {"arroz", "frijol"}
        /\ Producto("frijol").cantidad = 0
        /\ Producto("frijol").cantidad_inicial = 10
        /\ Producto("arroz").cantidad = 10

\* the replies that report a failure to the user
RespuestasDeFallo == {<<"numero_invalido">>, <<"precio_invalido">>,
                      <<"no_encontrado">>, <<"sin_productos">>}

\* C13: every failure met by a handler becomes a reply to the user and
\* leaves the session in its state or in MENU; no step ends in an exception
\* that nothing handles, also when the product a session selected for update
\* is deleted by another session before the new quantity arrives.
C13_FailuresReported ==
    [][\A s \in Sesiones2 :
          /\ respuesta'[s] # <<"KeyError">>
          /\ (respuesta'[s] \in RespuestasDeFallo /\ respuesta'[s] # respuesta[s])
             => estado'[s] \in {estado[s], MENU}]_vars

\* the step is the handling of one message of session s
PasoDe(s) ==
    \/ start(s)
    \/ \E texto \in TextosMenu2 : menu_handler(s, texto)
    \/ \E texto \in Nombres : insertar_nombre(s, texto)
    \/ \E texto \in TextosCantidad2 : insertar_cantidad(s, texto)
    \/ \E texto \in TextosPrecio2 : insertar_precio(s, texto)
    \/ \E texto \in Categorias, ahora \in Tiempos2 :
           insertar_categoria(s, texto, ahora)
    \/ \E texto \in Nombres : actualizar_seleccion(s, texto)
    \/ \E texto \in TextosCantidad2 : actualizar_cantidad(s, texto)
    \/ \E texto \in Nombres : borrar_producto(s, texto)
    \/ cancelar(s)

\* C14: the handling of a message of one session changes neither the
\* conversation state nor the draft (user_data) of the other session, nor
\* the last reply the other session got, under every interleaving.
C14_SessionsIsolated ==
    [][\A s, u \in Sesiones2 :
          (s # u /\ PasoDe(s))
          => /\ estado'[u] = estado[u]
             /\ user_data'[u] = user_data[u]
             /\ respuesta'[u] = respuesta[u]]_vars

\* one session has just cancelled while the other is in the middle of an
\* insert and still holds its draft
C14_Witness ==
    \E s, u \in Sesiones2 :
        /\ s # u
        /\ respuesta[s] = <<"cancelada", "menu">>
        /\ user_data[s] = <<>>
        /\ estado[u] = INSERTAR_CATEGORIA
        /\ "nuevo_producto" \in Claves(user_data[u])
        /\ Claves(Inventario) # {}

\* the handling of a message that reads inventario.json
PasoQueLee(s) ==
    \/ \E texto \in Botones \ {BotonInsertar, BotonSeguridad} :
           menu_handler(s, texto)
    \/ \E texto \in Categorias, ahora \in TiemposEq :
           insertar_categoria(s, texto, ahora)
    \/ \E texto \in Nombres : actualizar_seleccion(s, texto)
    \/ \E texto \in {"0", "1", "10"} : actualizar_cantidad(s, texto)
    \/ \E texto \in Nombres : borrar_producto(s, texto)

\* C15: while inventario.json cannot be decoded, a step that reads it
\* reports the failure to the session, and no step treats the file as an
\* empty inventory: the file is not replaced by a document that holds only
\* the new record.
C15_ReadFailureReported ==
    [][archivo.tipo = "corrupto"
       => /\ archivo' = archivo
          /\ \A s \in Sesiones :
                PasoQueLee(s) => respuesta'[s] = <<"error_persistencia">>]_vars

\* C16: from MENU, "Insertar Producto" always leads to INSERTAR_NOMBRE,
\* "Actualizar Producto" always to ACTUALIZAR_SELECCION and "Borrar Producto"
\* always to BORRAR_SELECCION, whatever the store holds; every other text
\* leaves the session in MENU; no menu step changes the store.
C16_MenuAlways ==
    [][\A s \in Sesiones, texto \in TextosMenu :
          menu_handler(s, texto)
          => /\ archivo' = archivo
             /\ estado'[s] = CASE texto = BotonInsertar -> INSERTAR_NOMBRE
                                [] texto = BotonActualizar -> ACTUALIZAR_SELECCION
                                [] texto = BotonBorrar -> BORRAR_SELECCION
                                [] OTHER -> MENU]_vars

\* C16, amended: as above, except that "Actualizar Producto" and "Borrar
\* Producto" lead to their selection state only when the loaded inventory
\* holds a product; over an empty inventory they leave the session in MENU
\* with the reply that there are no products.
C16_MenuTransitions ==
    [][\A s \in Sesiones, texto \in TextosMenu :
          menu_handler(s, texto)
          => /\ archivo' = archivo
             /\ IF texto \in {BotonActualizar, BotonBorrar} /\ Inventario = <<>>
                THEN estado'[s] = MENU /\ respuesta'[s] = <<"sin_productos">>
                ELSE estado'[s] = CASE texto = BotonInsertar -> INSERTAR_NOMBRE
                                    [] texto = BotonActualizar -> ACTUALIZAR_SELECCION
                                    [] texto = BotonBorrar -> BORRAR_SELECCION
                                    [] OTHER -> MENU]_vars

\* "Actualizar Producto" or "Borrar Producto" was answered over an empty
\* inventory and the session is still in MENU
C16_Witness ==
    \E s \in Sesiones :
        /\ respuesta[s] = <<"sin_productos">>
        /\ estado[s] = MENU
        /\ Inventario = <<>>

\* texts of non-negative numbers, whole and fractional
NoNegativos == {"0", "1", "10", "2.5"}

\* C17: in INSERTAR_CANTIDAD every text of a non-negative number, whole or
\* fractional, is accepted: the draft quantity becomes that number and the
\* session moves to INSERTAR_PRECIO; in ACTUALIZAR_CANTIDAD the quantity of
\* the selected product becomes that number and the session moves to MENU.
C17_NumbersAccepted ==
    [][\A s \in Sesiones, texto \in NoNegativos :
          /\ insertar_cantidad(s, texto)
             => /\ estado'[s] = INSERTAR_PRECIO
                /\ 1000 * Valor(Borrador(s)', "cantidad") = float(texto).v.v
          /\ actualizar_cantidad(s, texto)
             => /\ estado'[s] = MENU
                /\ \E n \in Nombres :
                      /\ n = Valor(user_data[s], "producto_actualizar")
                      /\ 1000 * Producto(n)'.cantidad = float(texto).v.v]_vars

\* C18: the INSERTAR_CATEGORIA step of a draft whose name is not in the
\* store commits exactly one new product with the name, quantity, price and
\* category of the draft and cantidad_inicial equal to the draft quantity,
\* changes no other product, empties the draft and moves the session to
\* MENU; reading the product back by name (from the JSON document, and with
\* Database.buscar_producto from the table) gives those values.
C18_CommitStoresDraft ==
    [][\A s \in Sesiones, texto \in Categorias, ahora \in TiemposEq,
          n \in Nombres :
          (/\ EqInsertar(s, texto, ahora)
           /\ n = Valor(Borrador(s), "nombre")
           /\ n \notin Claves(Inventario))
          => /\ Claves(Inventario') = Claves(Inventario) \cup {n}
             /\ Len(Inventario') = Len(Inventario) + 1
             /\ Cambiados = {n}
             /\ Producto(n)'.nombre = n
             /\ Producto(n)'.cantidad = Valor(Borrador(s), "cantidad")
             /\ Producto(n)'.cantidad_inicial = Valor(Borrador(s), "cantidad")
             /\ Producto(n)'.precio = Valor(Borrador(s), "precio")
             /\ Producto(n)'.categoria = texto
             /\ user_data'[s] = <<>>
             /\ estado'[s] = MENU
             /\ n \notin NombresDe(productos)
                => /\ Len(productos') = Len(productos) + 1
                   /\ SubSeq(productos', 1, Len(productos)) = productos
                   /\ Database_buscar_producto(n)' # None
                   /\ Database_buscar_producto(n)'[1].cantidad
                         = Valor(Borrador(s), "cantidad")
                   /\ Database_buscar_producto(n)'[1].cantidad_inicial
                         = Valor(Borrador(s), "cantidad")
                   /\ Database_buscar_producto(n)'[1].precio
                         = Valor(Borrador(s), "precio").v
                   /\ Database_buscar_producto(n)'[1].categoria = texto]_vars

\* a commit has just added a second product, with quantity 10 and price
\* 2.50, to both stores
C18_Witness ==
    \E s \in Sesiones, n \in Nombres :
        /\ respuesta[s] = <<"agregado">>
        /\ estado[s] = MENU /\ user_data[s] = <<>>
        /\ Len(Inventario) = 2 /\ Inventario[2][1] = n
        /\ Producto(n).cantidad = 10 /\ Producto(n).cantidad_inicial = 10
        /\ Producto(n).precio = Flt(2500)
        /\ resultado.op = "insertar_producto" /\ resultado.success
        /\ Database_buscar_producto(n) # None
        /\ Database_buscar_producto(n)[1].cantidad_inicial = 10

\* C19: in ACTUALIZAR_SELECCION and BORRAR_SELECCION a text that is not the
\* name of a stored product leaves the session in its state and the store
\* unchanged; the name of a stored product moves the session to
\* ACTUALIZAR_CANTIDAD with that name kept as the selection and the store
\* unchanged (update), or removes exactly that product and moves the session
\* to MENU (delete).
C19_SelectionSteps ==
    [][\A s \in Sesiones, texto \in Nombres :
          /\ actualizar_seleccion(s, texto)
             => /\ archivo' = archivo
                /\ IF texto \in Claves(Inventario)
                   THEN /\ estado'[s] = ACTUALIZAR_CANTIDAD
                        /\ Valor(user_data'[s], "producto_actualizar") = texto
                   ELSE /\ estado'[s] = ACTUALIZAR_SELECCION
                        /\ user_data'[s] = user_data[s]
          /\ borrar_producto(s, texto)
             => IF texto \in Claves(Inventario)
                THEN /\ estado'[s] = MENU
                     /\ Claves(Inventario') = Claves(Inventario) \ {texto}
                     /\ Cambiados = {texto}
                ELSE /\ estado'[s] = BORRAR_SELECCION
                     /\ archivo' = archivo]_vars

\* a session has selected "arroz" for update while "frijol" is stored too
C19_Witness ==
    \E s \in Sesiones :
        /\ estado[s] = ACTUALIZAR_CANTIDAD
        /\ respuesta[s] = <<"pedir_nueva_cantidad">>
        /\ Valor(user_data[s], "producto_actualizar") = "arroz"
        /\ Claves(Inventario) = {"arroz", "frijol"}

\* the quantities ACTUALIZAR_CANTIDAD accepts
CantidadesValidas == {"0", "1", "10"}

C21_ListSortedByName ==
    /\ NombresEn(Database_listar_productos) = NombresDe(productos)
    /\ Len(Database_listar_productos) = Len(productos)
    /\ \A i, j \in 1 .. Len(Database_listar_productos) :
           i < j => Rango(Database_listar_productos[i].nombre)
                      < Rango(Database_listar_productos[j].nombre)
    /\ {mostrar_inventario[i] : i \in 1 .. Len(mostrar_inventario)}
          = Claves(Inventario)
    /\ \A i, j \in 1 .. Len(mostrar_inventario) :
           i < j => Rango(mostrar_inventario[i]) < Rango(mostrar_inventario[j])

\* the threshold config.py has loaded is a fraction strictly between 0 and 1
UmbralValido ==
    /\ STOCK_MINIMO_PORCENTAJE # None
    /\ FLess(Flt(0), STOCK_MINIMO_PORCENTAJE[1])
    /\ FLess(STOCK_MINIMO_PORCENTAJE[1], Flt(1000))

\* quantity <= t * initialQuantity, for a threshold t in thousandths
BajoUmbral(t, cantidad, cantidad_inicial) ==
    1000 * cantidad <= t.v * cantidad_inicial

\* C22: the low-stock threshold is one configuration value: with the
\* fraction t loaded from the configuration, the low-stock report holds
\* exactly the products with quantity <= t * initialQuantity, and the alert
\* after a quantity update is sent exactly when the new quantity is
\* <= t * initialQuantity.
C22_ThresholdConfigured ==
    [][UmbralValido'
       => /\ \A n \in Claves(Inventario') :
                (n \in NombresEn(obtener_productos_bajo_stock'))
                <=> BajoUmbral(STOCK_MINIMO_PORCENTAJE'[1],
                               Producto(n)'.cantidad,
                               Producto(n)'.cantidad_inicial)
          /\ \A s \in Sesiones, texto \in TextosCantidadCfg, n \in Nombres :
                (/\ actualizar_cantidad(s, texto)
                 /\ n = Valor(user_data[s], "producto_actualizar")
                 /\ n \in Claves(Inventario))
                => ((respuesta'[s] = <<"actualizado", "alerta">>)
                    <=> BajoUmbral(STOCK_MINIMO_PORCENTAJE'[1], int(texto).v,
                                   Producto(n).cantidad_inicial))]_vars

\* C23: a session changes the inventory through the conversation only if
\* the list of authorized users is empty or holds the id of its user.
C23_AllowListGoverns ==
    [][\A s \in Sesiones :
          (archivo' # archivo /\ respuesta'[s] # respuesta[s])
          => (USUARIOS_AUTORIZADOS = {} \/ s \in USUARIOS_AUTORIZADOS)]_vars

\* C24: whatever the setting PORCENTAJE_ALERTA_MINIMO holds (absent, empty,
\* not a number, 0, a fraction, 1, a whole percentage, above 100, negative),
\* the threshold in effect once the configuration is loaded is strictly
\* between 0 and 1, and validar_configuracion reports no error.
C24_ThresholdInRange ==
    STOCK_MINIMO_PORCENTAJE # None
    => /\ UmbralValido
       /\ validar_configuracion = <<>>

\* C25: inventario.json changes only at a commit: the accepted category of
\* an insert, the accepted quantity of an update, the matching name of a
\* delete.  The steps in MENU, INSERTAR_NOMBRE, INSERTAR_CANTIDAD and
\* INSERTAR_PRECIO, every rejected input and every cancel leave it as it
\* was, so a session given up before the commit leaves no trace.
C25_StoreChangesOnlyAtCommit ==
    [][/\ archivo' # archivo
          => \E s \in Sesiones :
                \/ estado[s] = INSERTAR_CATEGORIA /\ respuesta'[s] = <<"agregado">>
                \/ /\ estado[s] = ACTUALIZAR_CANTIDAD
                   /\ respuesta'[s] \in {<<"actualizado">>,
                                         <<"actualizado", "alerta">>}
                \/ estado[s] = BORRAR_SELECCION /\ respuesta'[s] = <<"eliminado">>
       /\ \A s \in Sesiones :
             (/\ estado[s] \in {MENU, INSERTAR_NOMBRE, INSERTAR_CANTIDAD,
                                INSERTAR_PRECIO}
              /\ <<estado[s], user_data[s], respuesta[s]>>
                    # <<estado'[s], user_data'[s], respuesta'[s]>>)
             => archivo' = archivo]_vars

\* a session holds a complete draft of "frijol", one step before the commit,
\* and the store, which holds "arroz", has no "frijol"
C25_Witness ==
    \E s \in Sesiones :
        /\ estado[s] = INSERTAR_CATEGORIA
        /\ Valor(Borrador(s), "nombre") = "frijol"
        /\ Claves(Borrador(s)) = {"nombre", "cantidad", "cantidad_inicial", "precio"}
        /\ Claves(Inventario) = {"arroz"}

\* C26: a session that is in MENU has an empty draft: user_data holds no
\* nuevo_producto and no producto_actualizar left from a finished or
\* cancelled flow, after any sequence of insert, update, delete and cancel
\* steps of the two sessions.
C26_MenuHasEmptyDraft ==
    \A s \in Sesiones2 : estado[s] = MENU => user_data[s] = <<>>

\* one session is back in MENU after a delete, which does not clear
\* user_data itself, and the other after an update it completed
C26_Witness ==
    \E s, u \in Sesiones2 :
        /\ s # u
        /\ estado[s] = MENU /\ respuesta[s] = <<"eliminado">>
        /\ estado[u] = MENU /\ respuesta[u] = <<"actualizado">>
        /\ user_data[s] = <<>> /\ user_data[u] = <<>>

\* the state that follows each state of the insert flow
Siguiente(e) ==
    CASE e = INSERTAR_NOMBRE -> INSERTAR_CANTIDAD
      [] e = INSERTAR_CANTIDAD -> INSERTAR_PRECIO
      [] e = INSERTAR_PRECIO -> INSERTAR_CATEGORIA
      [] e = INSERTAR_CATEGORIA -> MENU
EstadosDeInsertar == {INSERTAR_NOMBRE, INSERTAR_CANTIDAD, INSERTAR_PRECIO,
                      INSERTAR_CATEGORIA}

\* C27: a session that enters INSERTAR_NOMBRE and is sent a name, a valid
\* quantity, a valid price and a category, with rejected inputs in between,
\* eventually is back in MENU with its product committed.  The insert
\* states are left only for the next one in the order INSERTAR_NOMBRE,
\* INSERTAR_CANTIDAD, INSERTAR_PRECIO, INSERTAR_CATEGORIA, MENU and entered
\* only from the one before; the commit is made only by the
\* INSERTAR_CATEGORIA step and writes exactly the one product of the draft.
C27_InsertFlowCompletes ==
    /\ [][\A s \in Sesiones :
             /\ estado[s] \in EstadosDeInsertar
                => estado'[s] \in {estado[s], Siguiente(estado[s])}
             /\ (estado'[s] \in EstadosDeInsertar /\ estado'[s] # estado[s])
                => \/ estado'[s] = INSERTAR_NOMBRE /\ estado[s] = MENU
                   \/ /\ estado[s] \in EstadosDeInsertar
                      /\ estado'[s] = Siguiente(estado[s])
             /\ (respuesta'[s] = <<"agregado">>
                   /\ <<estado[s], respuesta[s]>> # <<estado'[s], respuesta'[s]>>)
                => /\ estado[s] = INSERTAR_CATEGORIA
                   /\ estado'[s] = MENU
                   /\ \E n \in Nombres :
                         /\ n = Valor(Borrador(s), "nombre")
                         /\ n \in Claves(Inventario')
                         /\ Cambiados \subseteq {n}]_vars
    /\ \A s \in Sesiones :
          (estado[s] = INSERTAR_NOMBRE)
              ~> (estado[s] = MENU /\ respuesta[s] = <<"agregado">>)

\* a session is back in MENU with the product it entered committed, after
\* an earlier product went through the same flow
C27_Witness ==
    \E s \in Sesiones :
        /\ estado[s] = MENU
        /\ respuesta[s] = <<"agregado">>
        /\ Len(Inventario) = 2
        /\ Producto("frijol").fecha_creacion = 0
        /\ Inventario[2][1] = "arroz"
====
